---------------------------- MODULE Spec2Model ----------------------------
(***************************************************************************)
(* Model of the chat relay in src/app.py: the in-memory session map        *)
(* connected_users, the Socket.IO event handlers that read and write it,   *)
(* the events they emit, and their calls to the Base44 history store.      *)
(*                                                                         *)
(* src/app.py writes "try {" at lines 259 and 284 and "} except" at line   *)
(* 287; the model reads them as the Python try:/except: blocks they stand  *)
(* for.                                                                    *)
(*                                                                         *)
(* The server runs with async_mode='eventlet' (line 15): a handler runs    *)
(* without interruption until it blocks in a requests call of Base44Client *)
(* and other handlers may run while it is blocked.  So a handler that      *)
(* calls the store is two actions: the part up to the call, which leaves a *)
(* record in calls, and the part after the call returns or raises.  The   *)
(* record holds the locals the second part reads.                          *)
(*                                                                         *)
(* Spec is the server under any sequence of Socket.IO events.  SpecClient  *)
(* is the server, its HTTP route /api/check_username and the page script   *)
(* of HTML_TEMPLATE, which registers only the name its check let through.  *)
(* SpecBlocking is the server started by socketio.run (line 341) with the *)
(* requests library as imported at line 2, not made cooperative by any     *)
(* monkey patching: a requests call then holds the only thread, and no     *)
(* handler starts while a call is outstanding.                             *)
(*                                                                         *)
(* The 'timestamp' of a user message (line 306) is the wall clock and is   *)
(* left out of the payloads.                                               *)
(***************************************************************************)
EXTENDS Integers, Sequences, FiniteSets, Bags, TLC

\* ------------------------------------------------------------------ bounds
NumConns == 2          \* connections (sids) that may ever connect
MaxCalls == 2          \* store calls that may be outstanding at once
MaxStore == 1          \* records the history store may come to hold

SIDS == 1..NumConns
NoSid == 0

\* data['username'] of register_user; "" is a string Python treats as false
Usernames == {"", "alice", "bob"}
\* data['message'] of new_message
Texts == {"hi"}

\* Python's None, as returned by dict.get / dict.pop(sid, None)
None == "<None>"
\* a key that a payload does not have
Absent == "<absent>"

VARIABLES
    connected_users,   \* the dict {sid: username}, in insertion order
    participants,      \* sids the transport currently holds in the namespace
    departed,          \* sids whose disconnect handler has run
    calls,             \* the bag of outstanding Base44Client calls
    store,             \* the Chat records held by the Base44 entity store
    emitted,           \* the events emitted by the last handler step, in order
    last,              \* the last handler step taken
    passed,            \* per client page: the username its availability check let through
    response           \* the last response of GET /api/check_username

\* the state of the HTTP side channel and of the page script that uses it
clientVars == <<passed, response>>

vars == <<connected_users, participants, departed, calls, store, emitted, last,
          passed, response>>

\* ------------------------------------------------------- Python dict model
\* index of key k in dict d, 0 when absent
DictIndex(d, k) ==
    IF \E i \in 1..Len(d) : d[i].sid = k
    THEN CHOOSE i \in 1..Len(d) : d[i].sid = k
    ELSE 0

\* d.get(k): the value, or None
DictGet(d, k) ==
    IF DictIndex(d, k) = 0 THEN None ELSE d[DictIndex(d, k)].username

\* an assignment that rebinds the whole dict to the one new entry
DictSetClobbers(d, k, v) == <<[sid |-> k, username |-> v]>>

\* d[k] = v: an existing key keeps its position, a new key goes last
DictSet(d, k, v) ==
    IF DictIndex(d, k) = 0
    THEN Append(d, [sid |-> k, username |-> v])
    ELSE [d EXCEPT ![DictIndex(d, k)] = [sid |-> k, username |-> v]]

\* a pop that leaves the entry in place
DictPopKeepsEntry(d, k) == d

\* the dict after d.pop(k, None)
DictPop(d, k) ==
    IF DictIndex(d, k) = 0 THEN d
    ELSE SubSeq(d, 1, DictIndex(d, k) - 1) \o SubSeq(d, DictIndex(d, k) + 1, Len(d))

\* list(d.values())
DictValues(d) == [i \in 1..Len(d) |-> d[i].username]

DictKeys(d) == {d[i].sid : i \in 1..Len(d)}

\* a handler that does not test the username it read
TruthyUntested(u) == TRUE

\* Python truth value of a username read from the dict ("if username:")
Truthy(u) == u # None /\ u # ""

\* ------------------------------------------------------------- emissions
\* a broadcast that skips the sender
BroadcastAllSkipsSelf(parts, c) == parts \ {c}

\* an emit that was meant to broadcast and was not given broadcast=True
BroadcastAllToSender(parts, c) == {c} \cap parts

\* emit(..., broadcast=True): every client of the namespace, the sender too
BroadcastAll(parts, c) == parts

\* a broadcast that forgets include_self=False
BroadcastOthersWithSelf(parts, c) == parts

\* emit(..., broadcast=True, include_self=False)
BroadcastOthers(parts, c) == parts \ {c}

\* an emit to the sender that was given broadcast=True
ToSelfBroadcast(parts, c) == parts

\* emit(...) with no broadcast: the room of request.sid
ToSelf(parts, c) == {c} \cap parts

Emission(ev, ty, un, msg, us, hist, rcpt) ==
    [username |-> un, event |-> ev, type |-> ty, message |-> msg,
     users |-> us, history |-> hist, to |-> rcpt]

\* {'message': f'{username} has joined the chat.', 'type': 'system'}
JoinNotice(u, rcpt) ==
    Emission("receive_message", "system", Absent, <<u, " has joined the chat.">>, <<>>, <<>>, rcpt)

\* {'message': f'{username} has left the chat.', 'type': 'system'}
LeaveNotice(u, rcpt) ==
    Emission("receive_message", "system", Absent, <<u, " has left the chat.">>, <<>>, <<>>, rcpt)

\* {'message': 'Error: Could not send message.', 'type': 'system'}
ErrorNotice(rcpt) ==
    Emission("receive_message", "system", Absent, <<"Error: Could not send message.">>, <<>>, <<>>, rcpt)

\* {'username': username, 'message': message_text, 'timestamp': ...}
UserMessage(u, m, rcpt) ==
    Emission("receive_message", Absent, u, <<m>>, <<>>, <<>>, rcpt)

UserList(us, rcpt) ==
    Emission("update_user_list", Absent, Absent, <<>>, us, <<>>, rcpt)

RegistrationSuccess(hist, rcpt) ==
    Emission("registration_success", Absent, Absent, <<>>, <<>>, hist, rcpt)

ShowTyping(u, rcpt) ==
    Emission("show_typing", Absent, u, <<>>, <<>>, <<>>, rcpt)

HideTyping(rcpt) ==
    Emission("hide_typing", Absent, Absent, <<>>, <<>>, <<>>, rcpt)

\* ------------------------------------------------------ outstanding calls
\* base44.get_messages() called by the registration handler of sid c
GetCall(c) == [sid |-> c, username |-> None, message |-> "", op |-> "get_messages"]

\* base44.post_message(username, message_text) called for sid c
PostCall(c, u, m) == [sid |-> c, username |-> u, message |-> m, op |-> "post_message"]

\* base44.is_username_taken(username_to_check) called for the page of sid c
CheckCall(c, u) == [sid |-> c, username |-> u, message |-> "", op |-> "is_username_taken"]

\* a check that finds no name taken
IsUsernameTakenNever(st, u) == FALSE

\* is_username_taken: len(response.json()) > 0 for the records whose username is u
IsUsernameTaken(st, u) == Cardinality({i \in 1..Len(st) : st[i].username = u}) > 0

\* jsonify(...) and the status code of check_username
Response(code, key, taken) == [status |-> code, body |-> key, is_taken |-> taken]

NoResponse == Response(0, Absent, FALSE)

Pending == BagToSet(calls)

NumPending == BagCardinality(calls)

PendingPosts == IF NumPending = 0 THEN 0
                ELSE BagCardinality([r \in {q \in Pending : q.op = "post_message"} |-> calls[r]])

\* the handler step just taken: the event, request.sid, what connected_users
\* held for that sid before the step, the payload string, the store outcome
Step(o, c, w, a, k) == [sid |-> c, op |-> o, was |-> w, arg |-> a, ok |-> k]

\* ------------------------------------------------------------------- Init
Init ==
    /\ connected_users = <<>>
    /\ participants = {}
    /\ departed = {}
    /\ calls = EmptyBag
    /\ store = <<>>
    /\ emitted = <<>>
    /\ last = Step("init", NoSid, None, "", TRUE)
    /\ passed = [c \in SIDS |-> None]
    /\ response = NoResponse

\* ---------------------------------------------------------------- actions
\* handle_connect: only prints.  The transport hands out a fresh sid per
\* connection; sids are numbered in the order in which they connect.
Connect(c) ==
    /\ c \notin participants
    /\ c \notin departed
    /\ \A d \in SIDS : d < c => d \in participants \cup departed
    /\ participants' = participants \cup {c}
    /\ emitted' = <<>>
    /\ last' = Step("connect", c, None, "", TRUE)
    /\ UNCHANGED <<connected_users, departed, calls, store>>
    /\ UNCHANGED clientVars

\* a registration that fetches the history first and announces nothing yet
RegisterUserFetchFirst(c, u) ==
    /\ c \in participants
    /\ NumPending < MaxCalls
    /\ connected_users' = DictSet(connected_users, c, u)
    /\ emitted' = <<>>
    /\ calls' = calls (+) SetToBag({GetCall(c)})
    /\ last' = Step("register_user", c, DictGet(connected_users, c), u, TRUE)
    /\ UNCHANGED <<participants, departed, store>>
    /\ UNCHANGED clientVars

\* a registration that turns away a name another connection is bound to
RegisterUserUnlessTaken(c, u) ==
    /\ c \in participants
    /\ NumPending < MaxCalls
    /\ IF \E d \in DictKeys(connected_users) \ {c} : DictGet(connected_users, d) = u
       THEN /\ emitted' = <<>>
            /\ UNCHANGED <<connected_users, calls>>
       ELSE /\ connected_users' = DictSet(connected_users, c, u)
            /\ emitted' = << JoinNotice(u, BroadcastAll(participants, c)),
                             UserList(DictValues(connected_users'),
                                      BroadcastAll(participants, c)) >>
            /\ calls' = calls (+) SetToBag({GetCall(c)})
    /\ last' = Step("register_user", c, DictGet(connected_users, c), u, TRUE)
    /\ UNCHANGED <<participants, departed, store>>
    /\ UNCHANGED clientVars

\* handle_user_registration up to base44.get_messages()
RegisterUser(c, u) ==
    /\ c \in participants
    /\ NumPending < MaxCalls
    /\ connected_users' = DictSet(connected_users, c, u)
    /\ emitted' = << JoinNotice(u, BroadcastAll(participants, c)),
                     UserList(DictValues(connected_users'), BroadcastAll(participants, c)) >>
    /\ calls' = calls (+) SetToBag({GetCall(c)})
    /\ last' = Step("register_user", c, DictGet(connected_users, c), u, TRUE)
    /\ UNCHANGED <<participants, departed, store>>
    /\ UNCHANGED clientVars

\* a registration that reports a failed fetch as an error and undoes the binding
RegistrationDoneFailsHard(r, ok) ==
    /\ r.op = "get_messages"
    /\ BagIn(r, calls)
    /\ IF ok
       THEN /\ emitted' = << RegistrationSuccess(store, ToSelf(participants, r.sid)) >>
            /\ connected_users' = connected_users
       ELSE /\ emitted' = << ErrorNotice(ToSelf(participants, r.sid)) >>
            /\ connected_users' = DictPop(connected_users, r.sid)
    /\ calls' = calls (-) SetToBag({r})
    /\ last' = Step("registration_done", r.sid, DictGet(connected_users, r.sid), "", ok)
    /\ UNCHANGED <<participants, departed, store>>
    /\ UNCHANGED clientVars

\* handle_user_registration after get_messages() returned (ok) or raised
RegistrationDone(r, ok) ==
    /\ r.op = "get_messages"
    /\ BagIn(r, calls)
    /\ emitted' = << RegistrationSuccess(IF ok THEN store ELSE <<>>,
                                         ToSelf(participants, r.sid)) >>
    /\ calls' = calls (-) SetToBag({r})
    /\ last' = Step("registration_done", r.sid, DictGet(connected_users, r.sid), "", ok)
    /\ UNCHANGED <<connected_users, participants, departed, store>>
    /\ UNCHANGED clientVars

\* handle_new_message up to base44.post_message(username, message_text)
NewMessage(c, m) ==
    /\ c \in participants
    /\ LET username == DictGet(connected_users, c) IN
         IF Truthy(username)
         THEN /\ NumPending < MaxCalls
              /\ Len(store) + PendingPosts < MaxStore
              /\ calls' = calls (+) SetToBag({PostCall(c, username, m)})
         ELSE calls' = calls
    /\ emitted' = <<>>
    /\ last' = Step("new_message", c, DictGet(connected_users, c), m, TRUE)
    /\ UNCHANGED <<connected_users, participants, departed, store>>
    /\ UNCHANGED clientVars

\* a handler that broadcasts the message outside the try block
PostDoneBroadcastsAnyway(r, ok) ==
    /\ r.op = "post_message"
    /\ BagIn(r, calls)
    /\ store' = IF ok THEN Append(store, [username |-> r.username, message |-> r.message])
                ELSE store
    /\ emitted' = << UserMessage(r.username, r.message, BroadcastAll(participants, r.sid)) >>
    /\ calls' = calls (-) SetToBag({r})
    /\ last' = Step("post_done", r.sid, DictGet(connected_users, r.sid), r.message, ok)
    /\ UNCHANGED <<connected_users, participants, departed>>
    /\ UNCHANGED clientVars

\* handle_new_message after post_message returned (ok) or raised
PostDone(r, ok) ==
    /\ r.op = "post_message"
    /\ BagIn(r, calls)
    /\ IF ok
       THEN /\ store' = Append(store, [username |-> r.username, message |-> r.message])
            /\ emitted' = << UserMessage(r.username, r.message,
                                         BroadcastAll(participants, r.sid)) >>
       ELSE /\ store' = store
            /\ emitted' = << ErrorNotice(ToSelf(participants, r.sid)) >>
    /\ calls' = calls (-) SetToBag({r})
    /\ last' = Step("post_done", r.sid, DictGet(connected_users, r.sid), r.message, ok)
    /\ UNCHANGED <<connected_users, participants, departed>>
    /\ UNCHANGED clientVars

\* handle_typing
Typing(c) ==
    /\ c \in participants
    /\ LET username == DictGet(connected_users, c) IN
         emitted' = IF Truthy(username)
                    THEN << ShowTyping(username, BroadcastOthers(participants, c)) >>
                    ELSE <<>>
    /\ last' = Step("typing", c, DictGet(connected_users, c), "", TRUE)
    /\ UNCHANGED <<connected_users, participants, departed, calls, store>>
    /\ UNCHANGED clientVars

\* handle_stop_typing
StopTyping(c) ==
    /\ c \in participants
    /\ emitted' = << HideTyping(BroadcastOthers(participants, c)) >>
    /\ last' = Step("stop_typing", c, DictGet(connected_users, c), "", TRUE)
    /\ UNCHANGED <<connected_users, participants, departed, calls, store>>
    /\ UNCHANGED clientVars

\* handle_disconnect; the transport drops the sid once the handler returns
Disconnect(c) ==
    /\ c \in participants
    /\ LET username == DictGet(connected_users, c) IN
         /\ connected_users' = DictPop(connected_users, c)
         /\ emitted' = IF Truthy(username)
                       THEN << LeaveNotice(username, BroadcastAll(participants, c)),
                               UserList(DictValues(connected_users'),
                                        BroadcastAll(participants, c)) >>
                       ELSE <<>>
    /\ participants' = participants \ {c}
    /\ departed' = departed \cup {c}
    /\ last' = Step("disconnect", c, DictGet(connected_users, c), "", TRUE)
    /\ UNCHANGED <<calls, store>>
    /\ UNCHANGED clientVars

\* check_username up to base44.is_username_taken(); u is request.args.get('username'),
\* None when the parameter is missing.  The request comes from the page of sid c.
CheckUsername(c, u) ==
    /\ c \in participants
    /\ IF ~Truthy(u)
       THEN /\ response' = Response(400, "error", FALSE)
            /\ calls' = calls
       ELSE /\ NumPending < MaxCalls
            /\ calls' = calls (+) SetToBag({CheckCall(c, u)})
            /\ response' = response
    /\ emitted' = <<>>
    /\ last' = Step("check_username", c, DictGet(connected_users, c), u, TRUE)
    /\ UNCHANGED <<connected_users, participants, departed, store, passed>>

\* check_username after is_username_taken() returned (ok) or raised, and the
\* click handler of the page reading the response: unless data.is_taken is
\* true it keeps the name and emits register_user
CheckDone(r, ok) ==
    /\ r.op = "is_username_taken"
    /\ BagIn(r, calls)
    /\ response' = IF ok THEN Response(200, "is_taken", IsUsernameTaken(store, r.username))
                          ELSE Response(500, "error", FALSE)
    /\ passed' = IF response'.body = "is_taken" /\ response'.is_taken
                  THEN passed
                  ELSE [passed EXCEPT ![r.sid] = r.username]
    /\ calls' = calls (-) SetToBag({r})
    /\ emitted' = <<>>
    /\ last' = Step("check_done", r.sid, DictGet(connected_users, r.sid), r.username, ok)
    /\ UNCHANGED <<connected_users, participants, departed, store>>

\* the register_user the page emitted after its check reaches the server
ClientRegister(c) ==
    /\ passed[c] # None
    /\ DictGet(connected_users, c) = None
    /\ RegisterUser(c, passed[c])

Next ==
    \/ \E c \in SIDS : Connect(c)
    \/ \E c \in SIDS, u \in Usernames : RegisterUser(c, u)
    \/ \E c \in SIDS, ok \in BOOLEAN : RegistrationDone(GetCall(c), ok)
    \/ \E c \in SIDS, m \in Texts : NewMessage(c, m)
    \/ \E c \in SIDS, u \in Usernames, m \in Texts, ok \in BOOLEAN :
            PostDone(PostCall(c, u, m), ok)
    \/ \E c \in SIDS : Typing(c)
    \/ \E c \in SIDS : StopTyping(c)
    \/ \E c \in SIDS : Disconnect(c)

Spec == Init /\ [][Next]_vars

\* the page shows the username modal: no name kept yet, no check under way
ModalShown(c) ==
    /\ passed[c] = None
    /\ DictGet(connected_users, c) = None
    /\ \A u \in Usernames : ~BagIn(CheckCall(c, u), calls)

\* registration_success has shown the chat form of the page
ChatShown(c) ==
    /\ DictGet(connected_users, c) # None
    /\ ~BagIn(GetCall(c), calls)

NextClient ==
    \/ \E c \in SIDS : Connect(c)
    \/ \E c \in SIDS, u \in Usernames \cup {None} : ModalShown(c) /\ CheckUsername(c, u)
    \/ \E c \in SIDS, u \in Usernames, ok \in BOOLEAN : CheckDone(CheckCall(c, u), ok)
    \/ \E c \in SIDS : ClientRegister(c)
    \/ \E c \in SIDS, ok \in BOOLEAN : RegistrationDone(GetCall(c), ok)
    \/ \E c \in SIDS, m \in Texts : ChatShown(c) /\ NewMessage(c, m)
    \/ \E c \in SIDS, u \in Usernames, m \in Texts, ok \in BOOLEAN :
            PostDone(PostCall(c, u, m), ok)
    \/ \E c \in SIDS : ChatShown(c) /\ Typing(c)
    \/ \E c \in SIDS : ChatShown(c) /\ StopTyping(c)
    \/ \E c \in SIDS : Disconnect(c)

SpecClient == Init /\ [][NextClient]_vars

\* no requests call holds the thread
ThreadFree == NumPending = 0

NextBlocking ==
    \/ \E c \in SIDS : ThreadFree /\ Connect(c)
    \/ \E c \in SIDS, u \in Usernames : ThreadFree /\ RegisterUser(c, u)
    \/ \E c \in SIDS, ok \in BOOLEAN : RegistrationDone(GetCall(c), ok)
    \/ \E c \in SIDS, m \in Texts : ThreadFree /\ NewMessage(c, m)
    \/ \E c \in SIDS, u \in Usernames, m \in Texts, ok \in BOOLEAN :
            PostDone(PostCall(c, u, m), ok)
    \/ \E c \in SIDS : ThreadFree /\ Typing(c)
    \/ \E c \in SIDS : ThreadFree /\ StopTyping(c)
    \/ \E c \in SIDS : ThreadFree /\ Disconnect(c)

SpecBlocking == Init /\ [][NextBlocking]_vars

\* ================================================================ claims
IsUserMessage(e) == e.event = "receive_message" /\ e.type = Absent

IsSystemNotice(e) == e.event = "receive_message" /\ e.type = "system"

Emitted(ev) == {k \in 1..Len(emitted) : emitted[k].event = ev}

\* C1: the session map holds entries only for connections the transport still
\* holds, one entry per connection; a connection is in it right after its
\* register_user and out of it right after its disconnect; and the payload of
\* every update_user_list emission is the list of the usernames in the map,
\* entry by entry.
C1_PresenceMatchesSessions ==
    /\ DictKeys(connected_users) \subseteq participants
    /\ Cardinality(DictKeys(connected_users)) = Len(connected_users)
    /\ last.op = "register_user" => DictGet(connected_users, last.sid) = last.arg
    /\ last.op = "disconnect" => DictGet(connected_users, last.sid) = None
    /\ \A k \in Emitted("update_user_list") :
          /\ Len(emitted[k].users) = Len(connected_users)
          /\ \A i \in 1..Len(connected_users) :
                emitted[k].users[i] = connected_users[i].username

\* a bound connection left while another stayed, and the list was re-sent
C1_Witness ==
    /\ last.op = "disconnect"
    /\ last.was \in {"alice", "bob"}
    /\ Len(connected_users) = 1
    /\ Emitted("update_user_list") # {}

\* C2: a register_user whose (non-empty) username another connection is bound
\* to changes nothing: the map is unchanged, the sender stays unbound, nothing
\* is emitted and no history fetch is started.
C2_UsernameTakenRejected ==
    [][ ( /\ last'.op = "register_user"
          /\ last'.arg # ""
          /\ \E d \in DictKeys(connected_users) \ {last'.sid} :
                DictGet(connected_users, d) = last'.arg )
        => ( /\ connected_users' = connected_users
             /\ emitted' = <<>>
             /\ calls' = calls ) ]_vars

\* C3: no connection has two entries and no two connections are bound to the
\* same (non-empty) username, so the user list has no username twice.
C3_UniqueUsernames ==
    \A i, j \in 1..Len(connected_users) :
        i # j => /\ connected_users[i].sid # connected_users[j].sid
                 /\ connected_users[i].username # ""
                        => connected_users[i].username # connected_users[j].username

\* C4: a connection bound to a username is not bound to another (non-empty)
\* username by any step that leaves it connected.
C4_NoRename ==
    [][ \A c \in SIDS :
          ( /\ DictGet(connected_users, c) \notin {None, ""}
            /\ c \in participants'
            /\ DictGet(connected_users', c) # "" )
          => DictGet(connected_users', c) = DictGet(connected_users, c) ]_vars

\* C5: a connection whose disconnect has been handled has no entry in the
\* session map and is in the recipient set of no emitted event, the events
\* of its own disconnect included.
C5_DepartedGetsNothing ==
    \A c \in departed :
        /\ c \notin DictKeys(connected_users)
        /\ \A k \in 1..Len(emitted) : c \notin emitted[k].to

\* C6: a new_message from a connection with no entry in the session map starts
\* no append call, leaves the store alone and emits nothing.
C6_UnboundSenderIgnored ==
    [][ (last'.op = "new_message" /\ DictGet(connected_users, last'.sid) = None)
        => ( /\ calls' = calls
             /\ store' = store
             /\ emitted' = <<>> ) ]_vars

\* an unregistered connection sent a message while a registered one listened
C6_Witness ==
    /\ last.op = "new_message"
    /\ last.was = None
    /\ \E c \in participants : DictGet(connected_users, c) \in {"alice", "bob"}

\* C7 as stated: when the append fails the sender, and only the sender,
\* receives one system-type error notice.
C7_SenderAlwaysNotified ==
    (last.op = "post_done" /\ ~last.ok)
    => ( /\ Len(emitted) = 1
         /\ IsSystemNotice(emitted[1])
         /\ emitted[1].to = {last.sid} )

\* C7 amended: when the append fails, the one event emitted is a system-type
\* error notice addressed to the sender alone (received by the sender if it is
\* still connected, by nobody otherwise); the store is unchanged and the call
\* is gone with no new call in its place.
C7_AppendFailureDropsMessage ==
    [][ (last'.op = "post_done" /\ ~last'.ok)
        => ( /\ Len(emitted') = 1
             /\ IsSystemNotice(emitted'[1])
             /\ emitted'[1].message = <<"Error: Could not send message.">>
             /\ emitted'[1].to = {last'.sid} \cap participants
             /\ store' = store
             /\ BagCardinality(calls') = BagCardinality(calls) - 1
             /\ \A r \in BagToSet(calls') : r \in BagToSet(calls) ) ]_vars

\* the append failed with the sender and another connection present
C7_Witness ==
    /\ last.op = "post_done"
    /\ ~last.ok
    /\ Cardinality(participants) = 2
    /\ Len(emitted) = 1
    /\ emitted[1].to = {last.sid}

\* C8: a user-type receive_message is emitted exactly in the step in which an
\* append succeeds; that step emits one event, to every connection the
\* transport holds (the sender not excluded), carrying the username and text
\* of the appended record, which are those of one outstanding call that the
\* step retires; and the call of a new_message carries the username the
\* sender was bound to and the text it sent.
C8_BroadcastIffAppended ==
    [][ /\ (\E k \in 1..Len(emitted') : IsUserMessage(emitted'[k]))
              <=> Len(store') = Len(store) + 1
        /\ store' # store => ( /\ Len(store') = Len(store) + 1
                               /\ SubSeq(store', 1, Len(store)) = store )
        /\ Len(store') = Len(store) + 1 =>
              LET rec == store'[Len(store')] IN
              /\ Len(emitted') = 1
              /\ emitted'[1].username = rec.username
              /\ emitted'[1].message = <<rec.message>>
              /\ emitted'[1].to = participants
              /\ (last'.sid \in participants => last'.sid \in emitted'[1].to)
              /\ \E r \in BagToSet(calls) :
                    /\ r = PostCall(last'.sid, rec.username, rec.message)
                    /\ calls' = calls (-) SetToBag({r})
        /\ (last'.op = "new_message" /\ DictGet(connected_users, last'.sid) \in {"alice", "bob"})
              => calls' = calls (+) SetToBag({PostCall(last'.sid,
                                                        DictGet(connected_users, last'.sid),
                                                        last'.arg)})
      ]_vars

\* an append succeeded and the message went to two connections, sender included
C8_Witness ==
    /\ last.op = "post_done"
    /\ last.ok
    /\ Len(emitted) = 1
    /\ IsUserMessage(emitted[1])
    /\ Cardinality(emitted[1].to) = 2
    /\ last.sid \in emitted[1].to

\* C9: the sender of a typing or stop_typing event is not a recipient of the
\* show_typing or hide_typing it causes.
C9_TypingExcludesSender ==
    last.op \in {"typing", "stop_typing"}
    => \A k \in 1..Len(emitted) : last.sid \notin emitted[k].to

\* a bound connection typed and another connection was told
C9_Witness ==
    /\ last.op = "typing"
    /\ Len(emitted) = 1
    /\ emitted[1].event = "show_typing"
    /\ emitted[1].to # {}

\* C10: a typing or stop_typing from a connection with no entry in the session
\* map emits nothing.
C10_UnboundTypingSilent ==
    (last.op \in {"typing", "stop_typing"} /\ last.was = None) => emitted = <<>>

\* C11: a register_user step emits the join notice and then the user list,
\* each to every connection the transport holds, the registering one among
\* them; a registration_success is emitted only by the second part of a
\* registration and to no connection other than the registering one.
C11_RegisterRecipients ==
    /\ last.op = "register_user" =>
          /\ Len(emitted) = 2
          /\ IsSystemNotice(emitted[1])
          /\ emitted[1].message = <<last.arg, " has joined the chat.">>
          /\ emitted[2].event = "update_user_list"
          /\ \A k \in 1..2 : emitted[k].to = participants /\ last.sid \in emitted[k].to
    /\ \A k \in Emitted("registration_success") :
          /\ last.op = "registration_done"
          /\ emitted[k].to \subseteq {last.sid}

\* a registration ended with another connection present and only the
\* registering one was sent registration_success
C11_Witness ==
    /\ last.op = "registration_done"
    /\ Cardinality(participants) = 2
    /\ Len(emitted) = 1
    /\ emitted[1].to = {last.sid}

\* C12: a check_username request with a missing or empty username is answered
\* 400 without a store call; one whose store call fails is answered 500; one
\* whose store call returns is answered 200 with is_taken true exactly when
\* the store holds a record of that username; and no part of the request
\* changes the session map or the store or emits an event.
C12_CheckUsernameAdvisory ==
    [][ /\ last'.op = "check_username" =>
              /\ connected_users' = connected_users
              /\ store' = store
              /\ emitted' = <<>>
              /\ last'.arg \in {None, ""} => (response'.status = 400 /\ calls' = calls)
              /\ last'.arg \notin {None, ""} => response' = response
        /\ last'.op = "check_done" =>
              /\ connected_users' = connected_users
              /\ store' = store
              /\ emitted' = <<>>
              /\ ~last'.ok => response'.status = 500
              /\ last'.ok => /\ response'.status = 200
                             /\ response'.body = "is_taken"
                             /\ response'.is_taken =
                                   (\E i \in 1..Len(store) : store[i].username = last'.arg)
      ]_vars

\* a check was answered "taken" while a connection was registered
C12_Witness ==
    /\ last.op = "check_done"
    /\ last.ok
    /\ response.status = 200
    /\ response.is_taken
    /\ connected_users # <<>>

\* C13: the check lets a name through whenever the store holds no record of
\* it, whichever connections are bound to it, and the register_user that
\* follows binds the connection to the name it was let through with; so two
\* connections can pass the check for one name and both be bound to it.
C13_CheckThenRegisterBinds ==
    [][ /\ ( /\ last'.op = "check_done"
             /\ ~ \E i \in 1..Len(store) : store[i].username = last'.arg )
           => passed'[last'.sid] = last'.arg
        /\ last'.op = "register_user" =>
              /\ passed[last'.sid] = last'.arg
              /\ DictGet(connected_users', last'.sid) = last'.arg
      ]_vars

\* two connections passed the check for "alice" and both are bound to it
C13_Witness ==
    \E c, d \in SIDS :
        /\ c # d
        /\ passed[c] = "alice" /\ passed[d] = "alice"
        /\ DictGet(connected_users, c) = "alice"
        /\ DictGet(connected_users, d) = "alice"

\* two connections have passed the check for "alice" and neither is bound yet
C13_BothPassedNoneBound ==
    /\ \A c \in SIDS : passed[c] = "alice"
    /\ connected_users = <<>>

\* C14: the step that starts a history fetch is a register_user step that has
\* emitted the join notice and the user list, in that order, and no
\* registration_success; a registration_success is emitted only by a step that
\* retires a fetch outstanding for that connection.  So the join notice and the
\* list are out before the fetch can return, however long it takes.
C14_PresenceBeforeHistory ==
    [][ /\ (\E c \in SIDS : CopiesIn(GetCall(c), calls') > CopiesIn(GetCall(c), calls))
              => /\ last'.op = "register_user"
                 /\ Len(emitted') = 2
                 /\ IsSystemNotice(emitted'[1])
                 /\ emitted'[1].message = <<last'.arg, " has joined the chat.">>
                 /\ emitted'[2].event = "update_user_list"
        /\ last'.op = "register_user"
              => CopiesIn(GetCall(last'.sid), calls') = CopiesIn(GetCall(last'.sid), calls) + 1
        /\ (\E k \in 1..Len(emitted') : emitted'[k].event = "registration_success")
              => /\ Len(emitted') = 1
                 /\ CopiesIn(GetCall(last'.sid), calls) > 0
                 /\ calls' = calls (-) SetToBag({GetCall(last'.sid)})
      ]_vars

\* a registration has told two connections of the new user and its fetch is
\* still outstanding
C14_Witness ==
    /\ last.op = "register_user"
    /\ BagIn(GetCall(last.sid), calls)
    /\ Len(emitted) = 2
    /\ Cardinality(emitted[2].to) = 2

\* C15 as stated: when the history fetch fails the connection is still bound
\* and is sent registration_success with an empty history, and nothing else is
\* emitted.
C15_FailedFetchStillDelivers ==
    (last.op = "registration_done" /\ ~last.ok)
    => ( /\ DictGet(connected_users, last.sid) # None
         /\ Len(emitted) = 1
         /\ emitted[1].event = "registration_success"
         /\ emitted[1].history = <<>>
         /\ emitted[1].to = {last.sid} )

\* C15 amended: a failed history fetch leaves the session map as it is, and the
\* one event it emits is a registration_success with an empty history addressed
\* to the registering connection alone (received by it if it is still
\* connected, by nobody otherwise); no error notice is emitted.
C15_FailedFetchFailsSoft ==
    [][ (last'.op = "registration_done" /\ ~last'.ok)
        => ( /\ connected_users' = connected_users
             /\ Len(emitted') = 1
             /\ emitted'[1].event = "registration_success"
             /\ emitted'[1].history = <<>>
             /\ emitted'[1].to = {last'.sid} \cap participants ) ]_vars

\* the fetch failed with a record in the store, the connection still bound
\* and another connection present
C15_Witness ==
    /\ last.op = "registration_done"
    /\ ~last.ok
    /\ store # <<>>
    /\ DictGet(connected_users, last.sid) # None
    /\ Cardinality(participants) = 2
    /\ emitted[1].to = {last.sid}

\* C16: a disconnect of a connection with no entry emits nothing and leaves
\* the map alone; a disconnect of a connection with an entry removes it and
\* emits one leave notice naming its username and then one user list, computed
\* from the map after the removal, each reaching every remaining connection.
C16_DisconnectNotice ==
    [][ last'.op = "disconnect" =>
          IF DictGet(connected_users, last'.sid) = None
          THEN /\ emitted' = <<>>
               /\ connected_users' = connected_users
          ELSE /\ DictGet(connected_users', last'.sid) = None
               /\ Len(emitted') = 2
               /\ IsSystemNotice(emitted'[1])
               /\ emitted'[1].message =
                     <<DictGet(connected_users, last'.sid), " has left the chat.">>
               /\ emitted'[2].event = "update_user_list"
               /\ emitted'[2].users =
                     [i \in 1..Len(connected_users') |-> connected_users'[i].username]
               /\ \A k \in 1..2 : participants' \subseteq emitted'[k].to
      ]_vars

\* C17: while a store call is outstanding for one connection, a typing, a
\* disconnect, a register_user and (for a bound sender) a new_message of
\* another connection can each be handled.
C17_OthersNotBlocked ==
    \A a, b \in participants :
        (a # b /\ \E r \in BagToSet(calls) : r.sid = a)
        => /\ ENABLED (NextBlocking /\ last'.sid = b /\ last'.op = "typing")
           /\ ENABLED (NextBlocking /\ last'.sid = b /\ last'.op = "disconnect")
           /\ NumPending < MaxCalls
                 => ENABLED (NextBlocking /\ last'.sid = b /\ last'.op = "register_user")

\* the same statement for the server whose requests calls are cooperative
C17_OthersRunWhenCooperative ==
    \A a, b \in participants :
        (a # b /\ \E r \in BagToSet(calls) : r.sid = a)
        => /\ ENABLED (Next /\ last'.sid = b /\ last'.op = "typing")
           /\ ENABLED (Next /\ last'.sid = b /\ last'.op = "disconnect")
           /\ NumPending < MaxCalls
                 => ENABLED (Next /\ last'.sid = b /\ last'.op = "register_user")

\* C18: no username stored in the session map is the empty string.
C18_NoEmptyUsername ==
    \A i \in 1..Len(connected_users) : connected_users[i].username # ""

\* C19: a step other than a register_user or a disconnect leaves the session
\* map as it is, and a register_user or disconnect leaves the entries of all
\* connections but its sender as they are, in their order: only a
\* register_user adds an entry and only a disconnect removes one.
C19_MapFrame ==
    [][ IF last'.op \in {"register_user", "disconnect"}
        THEN LET Other(e) == e.sid # last'.sid
             IN  /\ SelectSeq(connected_users', Other) = SelectSeq(connected_users, Other)
                 /\ Len(connected_users') > Len(connected_users) => last'.op = "register_user"
                 /\ Len(connected_users') < Len(connected_users) => last'.op = "disconnect"
        ELSE connected_users' = connected_users
      ]_vars

\* a connection registered while another was bound, and both are in the map
C19_Witness ==
    /\ last.op = "register_user"
    /\ Len(connected_users) = 2
    /\ \E c \in SIDS \ {last.sid} : DictGet(connected_users, c) \in {"alice", "bob"}

\* a join or leave notice, a user message or a user list
IsBroadcastKind(e) ==
    \/ e.event = "update_user_list"
    \/ e.event = "receive_message" /\ e.message # <<"Error: Could not send message.">>

\* C20 as stated: apart from the sender of the event, a join or leave notice,
\* user list or user message reaches only connections that have an entry in
\* the session map.
C20_OnlySessionsReceive ==
    \A k \in 1..Len(emitted) :
        IsBroadcastKind(emitted[k])
        => \A c \in emitted[k].to :
              c = last.sid \/ DictGet(connected_users, c) # None

\* C20 amended: a join or leave notice, user list or user message is emitted
\* to every connection the transport holds at that moment, registered or not.
C20_EveryConnectionReceives ==
    [][ \A k \in 1..Len(emitted') :
            IsBroadcastKind(emitted'[k]) => emitted'[k].to = participants ]_vars

\* a broadcast reached a connection that never registered
C20_Witness ==
    \E k \in 1..Len(emitted) :
        /\ IsBroadcastKind(emitted[k])
        /\ \E c \in emitted[k].to :
              c # last.sid /\ DictGet(connected_users, c) = None

=============================================================================
